---- MODULE Spec2Model ----
(***************************************************************************)
(* Model of the original code of the SAPIEN tutorial notebooks:            *)
(*   - robotics/1_getting_started_with_robot.ipynb: SimplePID, pid_forward *)
(*     and the visualization loop guarded by use_external_pid;             *)
(*   - Motion Planning Tutorial 1 (unnamed/part_001) and Tutorial 2        *)
(*     (unnamed/part_000): move_to_pose, follow_path, open_gripper,        *)
(*     close_gripper and demo.                                             *)
(* The physics engine and the motion planner are external: what they       *)
(* return (joint errors, planner status, waypoints) is drawn from small    *)
(* sets.  Real numbers are exact rationals [n, d] in lowest terms.         *)
(***************************************************************************)
EXTENDS Integers, Sequences, FiniteSets, TLC

VARIABLES
    pids,              \* list of SimplePID objects, one per modelled active joint
    hist,              \* per controller: the <<current_error, dt>> of every compute call so far
    lastCall,          \* per controller: pre-state, arguments and returned signal of the latest compute
    calls,             \* number of compute calls made so far (bounded exploration)
    IN_COLAB,          \* whether importing google.colab succeeded
    use_external_pid,  \* the flag set in the cell before the visualization loop
    steps,             \* loop counter of the visualization loop
    lpc,               \* position inside the visualization loop
    pid_qf,            \* latest return value of pid_forward
    fwdTotal,          \* number of pid_forward calls made so far
    renders,           \* number of update_render / viewer.render / take_picture calls
    qf,                \* the local qf of the running loop body
    robot_qf,          \* the generalized force last given to robot.set_qf
    tick,              \* parity of the number of scene.step() calls
    tutorial,          \* which motion-planning notebook runs its demo (1 or 2; 0: none)
    with_screw,        \* Tutorial 1: demo's with_screw argument
    use_point_cloud,   \* Tutorial 2: demo's use_point_cloud argument
    use_attach,        \* Tutorial 2: demo's use_attach argument
    poses,             \* demo's pose lists (Tutorial 1: poses; Tutorial 2: pickup_pose, delivery_pose)
    di,                \* Tutorial 1: the index i of demo's for loop
    stmt,              \* the statement of demo's body that runs or runs next
    pc,                \* position inside the running function
    result,            \* the local result of the running move_to_pose
    mv,                \* the running (or latest) move_to_pose call: its planner calls, output, return value
    fi,                \* the index i of the loop in follow_path / open_gripper / close_gripper
    callSteps,         \* scene.step() calls made by the running follow_path / gripper call
    callRenders,       \* viewer.render() calls made by the running follow_path / gripper call
    drive_target,      \* drive target of each active joint
    drive_velocity,    \* drive velocity target of each active joint
    planner,           \* planner state set by update_point_cloud / update_attached_box
    failed,            \* some planning attempt of this demo run ended with a status other than Success
    calledAfterFailure,\* a move_to_pose / open_gripper / close_gripper call began after such an attempt
    iterTrace,         \* the calls demo made for the current landmark pose, with their target poses
    notebook,          \* the notebook whose cells are run from top to bottom ("none": no notebook run)
    colab,             \* whether the module google.colab can be imported in this environment
    ip,                \* the statement of the notebook that runs next
    it,                \* the counter (steps / i) of the notebook's running loop
    error,             \* the exception that stopped the notebook ("none": no exception)
    created,           \* how many engines, renderers, scenes, actors, planners, viewers exist
    lastOp,            \* the latest engine, scene, camera, viewer or display call of the notebook
    afterStep,         \* the construction and removal calls made after the first scene.step()
    stepped            \* scene.step() has been called

pidVars == <<pids, hist, lastCall, calls>>
loopVars == <<IN_COLAB, use_external_pid, steps, lpc, pid_qf, fwdTotal, renders>>
engineVars == <<qf, robot_qf, tick>>
demoVars == <<tutorial, with_screw, use_point_cloud, use_attach, poses, di, stmt, pc,
              result, mv, fi, callSteps, callRenders, drive_target, drive_velocity,
              planner, failed, calledAfterFailure, iterTrace>>
nbVars == <<notebook, colab, ip, it, error, created, lastOp, afterStep>>

vars == <<pids, hist, lastCall, calls,
          IN_COLAB, use_external_pid, steps, lpc, pid_qf, fwdTotal, renders,
          qf, robot_qf, tick,
          tutorial, with_screw, use_point_cloud, use_attach, poses, di, stmt, pc,
          result, mv, fi, callSteps, callRenders, drive_target, drive_velocity,
          planner, failed, calledAfterFailure, iterTrace,
          notebook, colab, ip, it, error, created, lastOp, afterStep, stepped>>

----------------------------------------------------------------------------
(* Bounds of the exploration *)

NumJoints == 2
MaxCalls == 5
MaxLoopSteps == 3
MaxWaypoints == 2
MaxPathId == 1

----------------------------------------------------------------------------
(* Exact rational arithmetic standing for Python's number arithmetic *)

Abs(x) == IF x < 0 THEN -x ELSE x

RECURSIVE GCD(_, _)
GCD(a, b) == IF b = 0 THEN a ELSE GCD(b, a % b)

Rat(n, d) ==
    LET g == GCD(Abs(n), Abs(d))
        s == IF d < 0 THEN -1 ELSE 1
    IN  [n |-> (s * n) \div g, d |-> (s * d) \div g]

RInt(k) == [n |-> k, d |-> 1]
RAdd(a, b) == Rat(a.n * b.d + b.n * a.d, a.d * b.d)
RSub(a, b) == Rat(a.n * b.d - b.n * a.d, a.d * b.d)
RMul(a, b) == Rat(a.n * b.n, a.d * b.d)
RDiv(a, b) == Rat(a.n * b.d, a.d * b.n)

----------------------------------------------------------------------------
(* robotics/1_getting_started_with_robot.ipynb: SimplePID *)

\* pid_parameters: (kp, ki, kd) per active joint, in list order
pid_parameters ==
    << <<Rat(40, 1), Rat(5, 1), Rat(2, 1)>>,
       <<Rat(40, 1), Rat(5, 1), Rat(2, 1)>>,
       <<Rat(40, 1), Rat(5, 1), Rat(2, 1)>>,
       <<Rat(20, 1), Rat(5, 1), Rat(2, 1)>>,
       <<Rat(5, 1), Rat(8, 10), Rat(2, 1)>>,
       <<Rat(5, 1), Rat(8, 10), Rat(2, 1)>>,
       <<Rat(5, 1), Rat(8, 10), Rat(4, 10)>>,
       <<Rat(1, 10), Rat(0, 1), Rat(2, 100)>>,
       <<Rat(1, 10), Rat(0, 1), Rat(2, 100)>>,
       <<Rat(1, 10), Rat(0, 1), Rat(2, 100)>>,
       <<Rat(1, 10), Rat(0, 1), Rat(2, 100)>>,
       <<Rat(1, 10), Rat(0, 1), Rat(2, 100)>>,
       <<Rat(1, 10), Rat(0, 1), Rat(2, 100)>> >>

\* the joints that are modelled (Python indices)
Joints == 0 .. (NumJoints - 1)

\* SimplePID.__init__(kp, ki, kd)
SimplePID(kp, ki, kd) ==
    [p |-> kp, i |-> ki, d |-> kd,
     cp |-> RInt(0), ci |-> RInt(0), cd |-> RInt(0),
     last_error |-> RInt(0)]

\* a compute whose derivative line accumulates like the integral line does
ComputeAccumulatingCd(pid, current_error, dt) ==
    LET cp == current_error
        ci == RAdd(pid.ci, RMul(current_error, dt))
        cd == RAdd(pid.cd, RDiv(RSub(current_error, pid.last_error), dt))
        signal == RAdd(RAdd(RMul(pid.p, cp), RMul(pid.i, ci)), RMul(pid.d, cd))
    IN  [pid |-> [pid EXCEPT !.cp = cp, !.ci = ci, !.cd = cd,
                             !.last_error = current_error],
         signal |-> signal]

\* a compute that stores the error before taking the difference
ComputeStaleDerivative(pid, current_error, dt) ==
    LET cp == current_error
        ci == RAdd(pid.ci, RMul(current_error, dt))
        cd == RDiv(RSub(current_error, current_error), dt)
        signal == RAdd(RAdd(RMul(pid.p, cp), RMul(pid.i, ci)), RMul(pid.d, cd))
    IN  [pid |-> [pid EXCEPT !.cp = cp, !.ci = ci, !.cd = cd,
                             !.last_error = current_error],
         signal |-> signal]

\* SimplePID.compute(current_error, dt): the new object state and the returned signal
Compute(pid, current_error, dt) ==
    LET cp == current_error
        ci == RAdd(pid.ci, RMul(current_error, dt))
        cd == RDiv(RSub(current_error, pid.last_error), dt)
        signal == RAdd(RAdd(RMul(pid.p, cp), RMul(pid.i, ci)), RMul(pid.d, cd))
    IN  [pid |-> [pid EXCEPT !.cp = cp, !.ci = ci, !.cd = cd,
                             !.last_error = current_error],
         signal |-> signal]

\* the cell that builds pids: one SimplePID(*pid_parameters[i]) per active joint
BuildPids ==
    [j \in Joints |->
        SimplePID(pid_parameters[j + 1][1], pid_parameters[j + 1][2],
                  pid_parameters[j + 1][3])]

\* values the external engine can hand to compute
Errors == {RInt(0), RInt(1)}
Dts == {Rat(1, 2), Rat(1, 1)}

NoCall == [made |-> FALSE]

PidInit ==
    /\ pids = BuildPids
    /\ hist = [j \in Joints |-> <<>>]
    /\ lastCall = [j \in Joints |-> NoCall]
    /\ calls = 0

\* a vector of zeros, one entry per modelled joint
ZeroVec == [j \in Joints |-> RInt(0)]

\* the robot before any set_qf: no force applied
NoForce == [gravity |-> FALSE, coriolis |-> FALSE, fresh |-> FALSE, add |-> ZeroVec]

EngineInit ==
    /\ qf = NoForce
    /\ robot_qf = NoForce
    /\ tick = 0

\* the visualization loop has not been entered
LoopIdle ==
    /\ IN_COLAB = FALSE
    /\ use_external_pid = FALSE
    /\ steps = 0
    /\ lpc = "idle"
    /\ pid_qf = ZeroVec
    /\ fwdTotal = 0
    /\ renders = [update |-> 0, viewer |-> 0, picture |-> 0]

\* no planner result is held
NoResult == [status |-> "none", n |-> 0, id |-> 0]

\* no move_to_pose call is recorded
NoMove ==
    [active |-> FALSE, at |-> <<0, 0>>, pose |-> <<>>,
     use_point_cloud |-> FALSE, use_attach |-> FALSE,
     calls |-> <<>>, follows |-> 0, followed |-> 0, steps |-> 0,
     printed |-> <<>>, returned |-> FALSE, ret |-> 0]

\* no motion-planning demo is running
DemoIdle ==
    /\ tutorial = 0
    /\ with_screw = FALSE
    /\ use_point_cloud = FALSE
    /\ use_attach = FALSE
    /\ poses = <<>>
    /\ di = 0
    /\ stmt = 1
    /\ pc = "idle"
    /\ result = NoResult
    /\ mv = NoMove
    /\ fi = 0
    /\ callSteps = 0
    /\ callRenders = 0
    /\ drive_target = <<>>
    /\ drive_velocity = <<>>
    /\ planner = [point_cloud |-> 0, attached_box |-> 0]
    /\ failed = FALSE
    /\ calledAfterFailure = FALSE
    /\ iterTrace = <<>>

\* nothing has been created: no engine, renderer, scene, actor, planner or viewer
NoneCreated ==
    [engine |-> 0, renderer |-> 0, scene |-> 0, actor |-> 0, planner |-> 0, viewer |-> 0]

\* no notebook is run cell by cell
NbIdle ==
    /\ notebook = "none"
    /\ colab = FALSE
    /\ ip = 0
    /\ it = 0
    /\ error = "none"
    /\ created = NoneCreated
    /\ lastOp = "none"
    /\ afterStep = {}
    /\ stepped = FALSE

InitPID == PidInit /\ LoopIdle /\ EngineInit /\ DemoIdle /\ NbIdle

\* one call pids[j].compute(e, dt)
CallCompute(j, e, dt) ==
    LET r == Compute(pids[j], e, dt)
    IN  /\ pids' = [pids EXCEPT ![j] = r.pid]
        /\ hist' = [hist EXCEPT ![j] = Append(@, <<e, dt>>)]
        /\ lastCall' = [lastCall EXCEPT ![j] =
                [made |-> TRUE, pre_ci |-> pids[j].ci,
                 pre_last_error |-> pids[j].last_error,
                 e |-> e, dt |-> dt, signal |-> r.signal]]

ComputeCall ==
    /\ calls < MaxCalls
    /\ \E j \in Joints, e \in Errors, dt \in Dts : CallCompute(j, e, dt)
    /\ calls' = calls + 1
    /\ UNCHANGED <<loopVars, engineVars>>
    /\ UNCHANGED <<demoVars, nbVars, stepped>>

NextPID == ComputeCall

SpecPID == InitPID /\ [][NextPID]_vars

----------------------------------------------------------------------------
(* robotics/1_getting_started_with_robot.ipynb: pid_forward and the         *)
(* visualization loop                                                      *)

\* scene.set_timestep(1 / 2000.0), read back by scene.get_timestep()
TimestepDen == 2000
Timestep == Rat(1, TimestepDen)

\* target_qpos = arm_target_qpos + gripper_init_qpos, entries in hundredths
target_qpos_cents == <<471, 284, 0, 75, 462, 448, 488, 0, 0, 0, 0, 0, 0>>
target_qpos == [j \in Joints |-> Rat(target_qpos_cents[j + 1], 100)]

\* what robot.get_qpos() can return: the engine decides each joint's position
QposValues == [Joints -> {0, 1}]
Qpos(v) == [j \in Joints |-> RSub(target_qpos[j], RInt(v[j]))]

\* pid_forward(pids, target_pos, current_pos, dt)
pid_forward(ps, target_pos, current_pos, dt) ==
    LET errors == [j \in Joints |-> RSub(target_pos[j], current_pos[j])]
        r == [j \in Joints |-> Compute(ps[j], errors[j], dt)]
    IN  [pids |-> [j \in Joints |-> r[j].pid],
         qf |-> [j \in Joints |-> r[j].signal]]

\* robot.compute_passive_force(gravity, coriolis_and_centrifugal) on the current state
compute_passive_force(g, c) ==
    [gravity |-> g, coriolis |-> c, fresh |-> TRUE, add |-> ZeroVec]

\* qf += pid_qf
AddForce(f, extra) ==
    [f EXCEPT !.add = [j \in Joints |-> RAdd(f.add[j], extra[j])]]

\* scene.step(): the state advances, so a force computed before it is stale
SceneStep ==
    /\ tick' = 1 - tick
    /\ robot_qf' = [robot_qf EXCEPT !.fresh = FALSE]
    /\ stepped' = TRUE

\* the cells before the loop: IN_COLAB from the import, use_external_pid set by the user
InitLoop ==
    /\ PidInit
    /\ EngineInit
    /\ IN_COLAB \in BOOLEAN
    /\ use_external_pid \in BOOLEAN
    /\ steps = 0
    /\ lpc = "head"
    /\ pid_qf = ZeroVec
    /\ fwdTotal = 0
    /\ renders = [update |-> 0, viewer |-> 0, picture |-> 0]
    /\ DemoIdle
    /\ NbIdle

\* range(2000) of the Colab loop and the screenshot limit of the viewer loop
LoopRange == 2000
PictureEvery == 200
RenderEvery == 8

\* loop head, then qf = robot.compute_passive_force(gravity=True, coriolis_and_centrifugal=True)
LoopPassive ==
    /\ lpc = "head"
    /\ steps < MaxLoopSteps
    /\ IN_COLAB => steps < LoopRange
    /\ qf' = compute_passive_force(TRUE, TRUE)
    /\ lpc' = "branch"
    /\ UNCHANGED <<pidVars, IN_COLAB, use_external_pid, steps, pid_qf, fwdTotal,
                   renders, robot_qf, tick>>
    /\ UNCHANGED <<demoVars, nbVars, stepped>>

\* the branch with the flag on: the PID call that forgets the flag
LoopPidAlways ==
    /\ lpc = "branch"
    /\ \E v \in QposValues :
          LET r == pid_forward(pids, target_qpos, Qpos(v), Timestep)
          IN  /\ pids' = r.pids
              /\ pid_qf' = r.qf
              /\ qf' = AddForce(qf, r.qf)
    /\ fwdTotal' = fwdTotal + 1
    /\ lpc' = "set_qf"
    /\ UNCHANGED <<hist, lastCall, calls, IN_COLAB, use_external_pid, steps,
                   renders, robot_qf, tick>>
    /\ UNCHANGED <<demoVars, nbVars, stepped>>

\* if use_external_pid: pid_qf = pid_forward(...); qf += pid_qf
LoopPid ==
    /\ lpc = "branch"
    /\ use_external_pid
    /\ \E v \in QposValues :
          LET r == pid_forward(pids, target_qpos, Qpos(v), Timestep)
          IN  /\ pids' = r.pids
              /\ pid_qf' = r.qf
              /\ qf' = AddForce(qf, r.qf)
    /\ fwdTotal' = fwdTotal + 1
    /\ lpc' = "set_qf"
    /\ UNCHANGED <<hist, lastCall, calls, IN_COLAB, use_external_pid, steps,
                   renders, robot_qf, tick>>
    /\ UNCHANGED <<demoVars, nbVars, stepped>>

\* the branch with the flag off: the if body is skipped
LoopNoPid ==
    /\ lpc = "branch"
    /\ ~use_external_pid
    /\ lpc' = "set_qf"
    /\ UNCHANGED <<pidVars, IN_COLAB, use_external_pid, steps, pid_qf, fwdTotal,
                   renders, qf, robot_qf, tick>>
    /\ UNCHANGED <<demoVars, nbVars, stepped>>

\* robot.set_qf(qf)
LoopSetQf ==
    /\ lpc = "set_qf"
    /\ robot_qf' = qf
    /\ lpc' = "step"
    /\ UNCHANGED <<pidVars, IN_COLAB, use_external_pid, steps, pid_qf, fwdTotal,
                   renders, qf, tick>>
    /\ UNCHANGED <<demoVars, nbVars, stepped>>

\* the render and screenshot calls that follow scene.step() in either loop
LoopRenders ==
    LET shot == IF IN_COLAB THEN steps % PictureEvery = 0
                ELSE steps < LoopRange /\ steps % PictureEvery = 0
        view == ~IN_COLAB /\ steps % RenderEvery = 0
    IN  [update  |-> renders.update + (IF shot THEN 1 ELSE 0) + (IF view THEN 1 ELSE 0),
         viewer  |-> renders.viewer + (IF view THEN 1 ELSE 0),
         picture |-> renders.picture + (IF shot THEN 1 ELSE 0)]

\* scene.step(), the rendering of this iteration, and the loop increment
LoopStep ==
    /\ lpc = "step"
    /\ SceneStep
    /\ renders' = LoopRenders
    /\ steps' = steps + 1
    /\ lpc' = "head"
    /\ UNCHANGED <<pidVars, IN_COLAB, use_external_pid, pid_qf, fwdTotal, qf>>
    /\ UNCHANGED <<demoVars, nbVars>>

\* while not viewer.closed: the user closes the viewer between two iterations
LoopViewerClosed ==
    /\ lpc = "head"
    /\ ~IN_COLAB
    /\ lpc' = "closed"
    /\ UNCHANGED <<pidVars, IN_COLAB, use_external_pid, steps, pid_qf, fwdTotal,
                   renders, engineVars>>
    /\ UNCHANGED <<demoVars, nbVars, stepped>>

NextLoop ==
    \/ LoopPassive
    \/ LoopPid
    \/ LoopNoPid
    \/ LoopSetQf
    \/ LoopStep
    \/ LoopViewerClosed

SpecLoop == InitLoop /\ [][NextLoop]_vars

----------------------------------------------------------------------------
(* Motion Planning Tutorial 1 (unnamed/part_001) and Tutorial 2            *)
(* (unnamed/part_000)                                                      *)

\* scene.set_timestep(1 / 240.0)
SceneTimestepDen == 240
SceneTimestep == Rat(1, SceneTimestepDen)

\* time_step=1/250 of every planner.plan / planner.plan_screw call
PlanTimeStepDen == 250
PlanTimeStep == Rat(1, PlanTimeStepDen)

\* the panda has nine active joints (init_qpos); follow_path drives the first seven
NumActiveJoints == 9
NumArmJoints == 7
ActiveJoints == 0 .. (NumActiveJoints - 1)
ArmJoints == 0 .. (NumArmJoints - 1)
\* active_joints[-2:]
GripperJoints == {NumActiveJoints - 2, NumActiveJoints - 1}

\* range(100) of open_gripper / close_gripper, "i % 4 == 0", targets 0.4 and 0 in hundredths
GripperSteps == 100
DemoRenderEvery == 4
GripperOpenTarget == 40
GripperClosedTarget == 0

\* the landmark poses of Tutorial 1's demo, positions in hundredths
Tutorial1Poses ==
    << <<40, 30, 12, 0, 1, 0, 0>>,
       <<20, -30, 8, 0, 1, 0, 0>>,
       <<60, 10, 14, 0, 1, 0, 0>> >>

\* pickup_pose and delivery_pose of Tutorial 2's demo, positions in hundredths
Tutorial2Poses ==
    << <<70, 0, 12, 0, 1, 0, 0>>,
       <<40, 30, 13, 0, 1, 0, 0>> >>

\* one statement of a demo body: the call, the pose list it changes (0: poses[i]),
\* the changed coordinate (1: x, 3: z), the increment, and the use_attach argument
S(op, which, axis, delta, attach) ==
    [op |-> op, which |-> which, axis |-> axis, delta |-> delta, attach |-> attach]

\* a body in which the shift along x is missing
Demo1BodyNoShift ==
    << S("move", 0, 3, 20, "False"),
       S("open", 0, 0, 0, "False"),
       S("move", 0, 3, -12, "False"),
       S("close", 0, 0, 0, "False"),
       S("move", 0, 3, 12, "False"),
       S("move", 0, 1, 0, "False"),
       S("move", 0, 3, -12, "False"),
       S("open", 0, 0, 0, "False"),
       S("move", 0, 3, 12, "False") >>

\* the body of the for loop of Tutorial 1's demo
Demo1Body ==
    << S("move", 0, 3, 20, "False"),
       S("open", 0, 0, 0, "False"),
       S("move", 0, 3, -12, "False"),
       S("close", 0, 0, 0, "False"),
       S("move", 0, 3, 12, "False"),
       S("move", 0, 1, 10, "False"),
       S("move", 0, 3, -12, "False"),
       S("open", 0, 0, 0, "False"),
       S("move", 0, 3, 12, "False") >>

\* a body in which attach_box comes after the lift move
Demo2BodyAttachLate ==
    << S("add_point_cloud", 0, 0, 0, "False"),
       S("move", 1, 3, 20, "False"),
       S("open", 0, 0, 0, "False"),
       S("move", 1, 3, -12, "False"),
       S("close", 0, 0, 0, "False"),
       S("move", 1, 3, 12, "use_attach"),
       S("attach_box", 0, 0, 0, "False"),
       S("move", 2, 3, 20, "use_attach"),
       S("move", 2, 3, -12, "use_attach"),
       S("open", 0, 0, 0, "False"),
       S("move", 2, 3, 12, "use_attach") >>

\* the body of Tutorial 2's demo
Demo2Body ==
    << S("add_point_cloud", 0, 0, 0, "False"),
       S("move", 1, 3, 20, "False"),
       S("open", 0, 0, 0, "False"),
       S("move", 1, 3, -12, "False"),
       S("close", 0, 0, 0, "False"),
       S("attach_box", 0, 0, 0, "False"),
       S("move", 1, 3, 12, "use_attach"),
       S("move", 2, 3, 20, "use_attach"),
       S("move", 2, 3, -12, "use_attach"),
       S("open", 0, 0, 0, "False"),
       S("move", 2, 3, 12, "use_attach") >>

Body == IF tutorial = 1 THEN Demo1Body ELSE Demo2Body

\* the pose list a move statement changes: poses[i] in Tutorial 1
PoseIndex(st) == IF tutorial = 1 THEN di + 1 ELSE st.which

\* the use_attach argument a move statement passes
AttachArg(st) == st.attach = "use_attach" /\ use_attach

\* Tutorial 2's move_to_pose and Tutorial 1's move_to_pose_with_screw try plan_screw first
ScrewFirst == tutorial = 2 \/ with_screw

\* what the planner can return: a failure status, or a path of n waypoints
Statuses == {"Success", "IK Failed", "RRT Failed"}
Outcomes ==
    {[status |-> s, n |-> 0, id |-> 0] : s \in Statuses \ {"Success"}}
    \cup {[status |-> "Success", n |-> n, id |-> id] :
             n \in 1 .. MaxWaypoints, id \in 0 .. MaxPathId}

\* result['position'][i][j] and result['velocity'][i][j] of a path
WaypointPosition(r, i, j) == 1000 * (r.id + 1) + 10 * i + j
WaypointVelocity(r, i, j) == -(1000 * (r.id + 1) + 10 * i + j)

\* the cells before demo(...): scene, robot, planner, drive properties, demo's arguments
InitDemo ==
    /\ PidInit /\ LoopIdle /\ EngineInit /\ NbIdle
    /\ tutorial \in {1, 2}
    /\ with_screw \in (IF tutorial = 1 THEN BOOLEAN ELSE {FALSE})
    /\ use_point_cloud \in (IF tutorial = 2 THEN BOOLEAN ELSE {FALSE})
    /\ use_attach \in (IF tutorial = 2 THEN BOOLEAN ELSE {FALSE})
    /\ poses = (IF tutorial = 1 THEN Tutorial1Poses ELSE Tutorial2Poses)
    /\ di = 0
    /\ stmt = 1
    /\ pc = "stmt"
    /\ result = NoResult
    /\ mv = NoMove
    /\ fi = 0
    /\ callSteps = 0
    /\ callRenders = 0
    /\ drive_target = [j \in ActiveJoints |-> 0]
    /\ drive_velocity = [j \in ActiveJoints |-> 0]
    /\ planner = [point_cloud |-> 0, attached_box |-> 0]
    /\ failed = FALSE
    /\ calledAfterFailure = FALSE
    /\ iterTrace = <<>>

\* the statement after the current one: the next of the body, the next loop
\* iteration (Tutorial 1: for i in range(3)), or the end of demo
Advance ==
    IF stmt < Len(Body)
    THEN /\ stmt' = stmt + 1 /\ di' = di /\ pc' = "stmt"
    ELSE IF tutorial = 1 /\ di + 1 < Len(poses)
         THEN /\ stmt' = 1 /\ di' = di + 1 /\ pc' = "stmt"
         ELSE /\ stmt' = stmt /\ di' = di /\ pc' = "done"

\* the calls recorded for the current landmark pose: a new loop iteration starts afresh
TraceWith(entry) == Append(IF stmt = 1 THEN <<>> ELSE iterTrace, entry)

\* pose[axis] += delta; move_to_pose(pose, ...): entry into the move function
DemoMove ==
    /\ pc = "stmt"
    /\ Body[stmt].op = "move"
    /\ LET st == Body[stmt]
           w == PoseIndex(st)
           pose == [poses[w] EXCEPT ![st.axis] = @ + st.delta]
       IN  /\ poses' = [poses EXCEPT ![w] = pose]
           /\ mv' = [NoMove EXCEPT !.active = TRUE, !.at = <<di, stmt>>,
                                   !.pose = pose,
                                   !.use_point_cloud = use_point_cloud,
                                   !.use_attach = AttachArg(st)]
           /\ iterTrace' = TraceWith([op |-> "move_to_pose", pose |-> pose])
    /\ pc' = IF ScrewFirst THEN "plan_screw" ELSE "plan"
    /\ calledAfterFailure' = (calledAfterFailure \/ failed)
    /\ UNCHANGED <<tutorial, with_screw, use_point_cloud, use_attach, di, stmt,
                   result, fi, callSteps, callRenders, drive_target,
                   drive_velocity, planner, failed>>
    /\ UNCHANGED <<pidVars, loopVars, engineVars, nbVars, stepped>>

\* the record of one planner call: which planner, its arguments, what it returned,
\* and how often update_point_cloud / update_attached_box had been called before it
PlannerCall(name, r) ==
    [planner |-> name, pose |-> mv.pose, at |-> mv.steps,
     time_step |-> PlanTimeStep,
     use_point_cloud |-> mv.use_point_cloud, use_attach |-> mv.use_attach,
     point_cloud |-> planner.point_cloud, attached_box |-> planner.attached_box,
     status |-> r.status, n |-> r.n, id |-> r.id]

\* a plan_screw whose failure is final: no sampling-based attempt follows
PlanScrewNoFallback ==
    /\ pc = "plan_screw"
    /\ \E r \in Outcomes :
          LET mv1 == [mv EXCEPT !.calls = Append(@, PlannerCall("plan_screw", r))]
          IN  /\ failed' = (failed \/ r.status # "Success")
              /\ IF r.status # "Success"
                 THEN /\ result' = NoResult
                      /\ mv' = [mv1 EXCEPT !.printed = Append(@, r.status),
                                           !.returned = TRUE, !.ret = -1]
                      /\ Advance
                      /\ UNCHANGED <<fi, callSteps, callRenders>>
                 ELSE /\ result' = r
                      /\ mv' = [mv1 EXCEPT !.follows = @ + 1,
                                           !.followed = Len(mv1.calls)]
                      /\ pc' = "fp_qf"
                      /\ fi' = 0
                      /\ callSteps' = 0
                      /\ callRenders' = 0
                      /\ UNCHANGED <<stmt, di>>
    /\ UNCHANGED <<tutorial, with_screw, use_point_cloud, use_attach, poses,
                   drive_target, drive_velocity, planner, calledAfterFailure,
                   iterTrace>>
    /\ UNCHANGED <<pidVars, loopVars, engineVars, nbVars, stepped>>

\* result = planner.plan_screw(pose, robot.get_qpos(), time_step=1/250, ...);
\* on Success follow_path(result, viewer) is entered, otherwise planner.plan is tried
PlanScrew ==
    /\ pc = "plan_screw"
    /\ \E r \in Outcomes :
          LET mv1 == [mv EXCEPT !.calls = Append(@, PlannerCall("plan_screw", r))]
          IN  /\ failed' = (failed \/ r.status # "Success")
              /\ IF r.status # "Success"
                 THEN /\ result' = r
                      /\ mv' = mv1
                      /\ pc' = "plan"
                      /\ UNCHANGED <<fi, callSteps, callRenders>>
                 ELSE /\ result' = r
                      /\ mv' = [mv1 EXCEPT !.follows = @ + 1,
                                           !.followed = Len(mv1.calls)]
                      /\ pc' = "fp_qf"
                      /\ fi' = 0
                      /\ callSteps' = 0
                      /\ callRenders' = 0
    /\ UNCHANGED <<tutorial, with_screw, use_point_cloud, use_attach, poses, di,
                   stmt, drive_target, drive_velocity, planner,
                   calledAfterFailure, iterTrace>>
    /\ UNCHANGED <<pidVars, loopVars, engineVars, nbVars, stepped>>

\* a plan that is called again after it failed
PlanRetrying ==
    /\ pc = "plan"
    /\ \E r \in Outcomes :
          LET mv1 == [mv EXCEPT !.calls = Append(@, PlannerCall("plan", r))]
          IN  /\ failed' = (failed \/ r.status # "Success")
              /\ IF r.status # "Success"
                 THEN /\ Len(mv.calls) < 3
                      /\ result' = r
                      /\ mv' = mv1
                      /\ pc' = "plan"
                      /\ UNCHANGED <<stmt, di, fi, callSteps, callRenders>>
                 ELSE /\ result' = r
                      /\ mv' = [mv1 EXCEPT !.follows = @ + 1,
                                           !.followed = Len(mv1.calls)]
                      /\ pc' = "fp_qf"
                      /\ fi' = 0
                      /\ callSteps' = 0
                      /\ callRenders' = 0
                      /\ UNCHANGED <<stmt, di>>
    /\ UNCHANGED <<tutorial, with_screw, use_point_cloud, use_attach, poses,
                   drive_target, drive_velocity, planner, calledAfterFailure,
                   iterTrace>>
    /\ UNCHANGED <<pidVars, loopVars, engineVars, nbVars, stepped>>

\* a plan whose failure ends the demo
PlanAbortingDemo ==
    /\ pc = "plan"
    /\ \E r \in Outcomes :
          LET mv1 == [mv EXCEPT !.calls = Append(@, PlannerCall("plan", r))]
          IN  /\ failed' = (failed \/ r.status # "Success")
              /\ IF r.status # "Success"
                 THEN /\ result' = NoResult
                      /\ mv' = [mv1 EXCEPT !.printed = Append(@, r.status),
                                           !.returned = TRUE, !.ret = -1]
                      /\ pc' = "done"
                      /\ UNCHANGED <<stmt, di, fi, callSteps, callRenders>>
                 ELSE /\ result' = r
                      /\ mv' = [mv1 EXCEPT !.follows = @ + 1,
                                           !.followed = Len(mv1.calls)]
                      /\ pc' = "fp_qf"
                      /\ fi' = 0
                      /\ callSteps' = 0
                      /\ callRenders' = 0
                      /\ UNCHANGED <<stmt, di>>
    /\ UNCHANGED <<tutorial, with_screw, use_point_cloud, use_attach, poses,
                   drive_target, drive_velocity, planner, calledAfterFailure,
                   iterTrace>>
    /\ UNCHANGED <<pidVars, loopVars, engineVars, nbVars, stepped>>

\* result = planner.plan(pose, robot.get_qpos(), time_step=1/250, ...);
\* on failure print(result['status']) and return -1, otherwise follow_path is entered
Plan ==
    /\ pc = "plan"
    /\ \E r \in Outcomes :
          LET mv1 == [mv EXCEPT !.calls = Append(@, PlannerCall("plan", r))]
          IN  /\ failed' = (failed \/ r.status # "Success")
              /\ IF r.status # "Success"
                 THEN /\ result' = NoResult
                      /\ mv' = [mv1 EXCEPT !.printed = Append(@, r.status),
                                           !.returned = TRUE, !.ret = -1]
                      /\ Advance
                      /\ UNCHANGED <<fi, callSteps, callRenders>>
                 ELSE /\ result' = r
                      /\ mv' = [mv1 EXCEPT !.follows = @ + 1,
                                           !.followed = Len(mv1.calls)]
                      /\ pc' = "fp_qf"
                      /\ fi' = 0
                      /\ callSteps' = 0
                      /\ callRenders' = 0
                      /\ UNCHANGED <<stmt, di>>
    /\ UNCHANGED <<tutorial, with_screw, use_point_cloud, use_attach, poses,
                   drive_target, drive_velocity, planner, calledAfterFailure,
                   iterTrace>>
    /\ UNCHANGED <<pidVars, loopVars, engineVars, nbVars, stepped>>

\* a loop body that leaves the force of the previous iteration in place
PassiveForceSkipped ==
    /\ qf' = qf
    /\ robot_qf' = robot_qf

\* qf = robot.compute_passive_force(gravity=True, coriolis_and_centrifugal=True); robot.set_qf(qf)
PassiveForceSet ==
    /\ qf' = compute_passive_force(TRUE, TRUE)
    /\ robot_qf' = compute_passive_force(TRUE, TRUE)

\* follow_path, iteration i: the passive force is computed and set
FollowQf ==
    /\ pc = "fp_qf"
    /\ fi < result.n
    /\ PassiveForceSet
    /\ pc' = "fp_drive"
    /\ UNCHANGED <<tutorial, with_screw, use_point_cloud, use_attach, poses, di,
                   stmt, result, mv, fi, callSteps, callRenders, drive_target,
                   drive_velocity, planner, failed, calledAfterFailure, iterTrace>>
    /\ UNCHANGED <<pidVars, loopVars, tick, nbVars, stepped>>

\* drive targets taken from the next waypoint instead of waypoint i
DriveTargetsOffByOne(r, i) ==
    [target   |-> [j \in ActiveJoints |->
                      IF j \in ArmJoints THEN WaypointPosition(r, i + 1, j)
                      ELSE drive_target[j]],
     velocity |-> [j \in ActiveJoints |->
                      IF j \in ArmJoints THEN WaypointVelocity(r, i + 1, j)
                      ELSE drive_velocity[j]]]

\* for j in range(7): set_drive_target(position[i][j]); set_drive_velocity_target(velocity[i][j])
DriveTargets(r, i) ==
    [target   |-> [j \in ActiveJoints |->
                      IF j \in ArmJoints THEN WaypointPosition(r, i, j)
                      ELSE drive_target[j]],
     velocity |-> [j \in ActiveJoints |->
                      IF j \in ArmJoints THEN WaypointVelocity(r, i, j)
                      ELSE drive_velocity[j]]]

\* follow_path, iteration i: the drive targets of the seven arm joints are set
FollowDrive ==
    /\ pc = "fp_drive"
    /\ drive_target' = DriveTargets(result, fi).target
    /\ drive_velocity' = DriveTargets(result, fi).velocity
    /\ pc' = "fp_step"
    /\ UNCHANGED <<tutorial, with_screw, use_point_cloud, use_attach, poses, di,
                   stmt, result, mv, fi, callSteps, callRenders, planner, failed,
                   calledAfterFailure, iterTrace>>
    /\ UNCHANGED <<pidVars, loopVars, engineVars, nbVars, stepped>>

\* if i % 4 == 0: scene.update_render(); viewer.render()
RendersAfter(i) == callRenders + (IF i % DemoRenderEvery = 0 THEN 1 ELSE 0)

\* follow_path, iteration i: scene.step(), the rendering, and the end of the loop
\* (return 0 from move_to_pose after the last waypoint)
FollowStep ==
    /\ pc = "fp_step"
    /\ SceneStep
    /\ callSteps' = callSteps + 1
    /\ callRenders' = RendersAfter(fi)
    /\ fi' = fi + 1
    /\ IF fi + 1 < result.n
       THEN /\ mv' = [mv EXCEPT !.steps = @ + 1]
            /\ pc' = "fp_qf"
            /\ UNCHANGED <<stmt, di, result>>
       ELSE /\ mv' = [mv EXCEPT !.steps = @ + 1, !.returned = TRUE, !.ret = 0]
            /\ result' = NoResult
            /\ Advance
    /\ UNCHANGED <<tutorial, with_screw, use_point_cloud, use_attach, poses,
                   drive_target, drive_velocity, planner, failed,
                   calledAfterFailure, iterTrace>>
    /\ UNCHANGED <<pidVars, loopVars, qf, nbVars>>

\* open_gripper(viewer) / close_gripper(viewer): the drive targets of the two
\* finger joints are set; the loop of 100 steps follows
DemoGripper ==
    /\ pc = "stmt"
    /\ Body[stmt].op \in {"open", "close"}
    /\ LET target == IF Body[stmt].op = "open" THEN GripperOpenTarget
                     ELSE GripperClosedTarget
       IN  drive_target' = [j \in ActiveJoints |->
                               IF j \in GripperJoints THEN target ELSE drive_target[j]]
    /\ iterTrace' = TraceWith([op |-> IF Body[stmt].op = "open" THEN "open_gripper"
                                      ELSE "close_gripper",
                               pose |-> mv.pose])
    /\ mv' = NoMove
    /\ fi' = 0
    /\ callSteps' = 0
    /\ callRenders' = 0
    /\ pc' = "grip_qf"
    /\ calledAfterFailure' = (calledAfterFailure \/ failed)
    /\ UNCHANGED <<tutorial, with_screw, use_point_cloud, use_attach, poses, di,
                   stmt, result, drive_velocity, planner, failed>>
    /\ UNCHANGED <<pidVars, loopVars, engineVars, nbVars, stepped>>

\* open_gripper / close_gripper, iteration i: the passive force is computed and set
GripQf ==
    /\ pc = "grip_qf"
    /\ fi < GripperSteps
    /\ PassiveForceSet
    /\ pc' = "grip_step"
    /\ UNCHANGED <<tutorial, with_screw, use_point_cloud, use_attach, poses, di,
                   stmt, result, mv, fi, callSteps, callRenders, drive_target,
                   drive_velocity, planner, failed, calledAfterFailure, iterTrace>>
    /\ UNCHANGED <<pidVars, loopVars, tick, nbVars, stepped>>

\* open_gripper / close_gripper, iteration i: scene.step(), the rendering, the end of the loop
GripStep ==
    /\ pc = "grip_step"
    /\ SceneStep
    /\ callSteps' = callSteps + 1
    /\ callRenders' = RendersAfter(fi)
    /\ fi' = fi + 1
    /\ IF fi + 1 < GripperSteps
       THEN /\ pc' = "grip_qf"
            /\ UNCHANGED <<stmt, di>>
       ELSE Advance
    /\ UNCHANGED <<tutorial, with_screw, use_point_cloud, use_attach, poses,
                   result, mv, drive_target, drive_velocity, planner, failed,
                   calledAfterFailure, iterTrace>>
    /\ UNCHANGED <<pidVars, loopVars, qf, nbVars>>

\* an add_point_cloud() that is called whatever use_point_cloud is
DemoAddPointCloudAlways ==
    /\ pc = "stmt"
    /\ Body[stmt].op = "add_point_cloud"
    /\ planner' = [planner EXCEPT !.point_cloud = @ + 1]
    /\ iterTrace' = TraceWith([op |-> "add_point_cloud", pose |-> <<>>])
    /\ mv' = NoMove
    /\ Advance
    /\ UNCHANGED <<tutorial, with_screw, use_point_cloud, use_attach, poses,
                   result, fi, callSteps, callRenders, drive_target,
                   drive_velocity, failed, calledAfterFailure>>
    /\ UNCHANGED <<pidVars, loopVars, engineVars, nbVars, stepped>>

\* if use_point_cloud: add_point_cloud()    (planner.update_point_cloud(points))
DemoAddPointCloud ==
    /\ pc = "stmt"
    /\ Body[stmt].op = "add_point_cloud"
    /\ IF use_point_cloud
       THEN /\ planner' = [planner EXCEPT !.point_cloud = @ + 1]
            /\ iterTrace' = TraceWith([op |-> "add_point_cloud", pose |-> <<>>])
       ELSE /\ planner' = planner
            /\ iterTrace' = (IF stmt = 1 THEN <<>> ELSE iterTrace)
    /\ mv' = NoMove
    /\ Advance
    /\ UNCHANGED <<tutorial, with_screw, use_point_cloud, use_attach, poses,
                   result, fi, callSteps, callRenders, drive_target,
                   drive_velocity, failed, calledAfterFailure>>
    /\ UNCHANGED <<pidVars, loopVars, engineVars, nbVars, stepped>>

\* if use_attach: attach_box(planner)    (planner.update_attached_box(...))
DemoAttachBox ==
    /\ pc = "stmt"
    /\ Body[stmt].op = "attach_box"
    /\ IF use_attach
       THEN /\ planner' = [planner EXCEPT !.attached_box = @ + 1]
            /\ iterTrace' = TraceWith([op |-> "attach_box", pose |-> <<>>])
       ELSE /\ planner' = planner
            /\ iterTrace' = iterTrace
    /\ mv' = NoMove
    /\ Advance
    /\ UNCHANGED <<tutorial, with_screw, use_point_cloud, use_attach, poses,
                   result, fi, callSteps, callRenders, drive_target,
                   drive_velocity, failed, calledAfterFailure>>
    /\ UNCHANGED <<pidVars, loopVars, engineVars, nbVars, stepped>>

Next ==
    \/ DemoMove
    \/ PlanScrew
    \/ Plan
    \/ FollowQf
    \/ FollowDrive
    \/ FollowStep
    \/ DemoGripper
    \/ GripQf
    \/ GripStep
    \/ DemoAddPointCloud
    \/ DemoAttachBox

Spec == InitDemo /\ [][Next]_vars

----------------------------------------------------------------------------
(* The notebooks, run cell by cell from top to bottom: the engine, scene,    *)
(* camera, viewer and display calls of every notebook, in source order       *)

\* bound on the iterations of a "while not viewer.closed" loop
MaxViewerSteps == 9

\* one statement: the call, its line, the branch of "if IN_COLAB" it stands in
\* ("always": outside), and for a call under "if steps % k == 0" the k (and the
\* limit of "steps < limit"); a loop head carries its range
Stmt(op, line, when, every, below, n) ==
    [op |-> op, line |-> line, when |-> when, every |-> every, below |-> below, n |-> n]
Call(op, line, when) == Stmt(op, line, when, 0, 0, 0)
CallEvery(op, line, when, every, below) == Stmt(op, line, when, every, below, 0)
For(line, when, n) == Stmt("for", line, when, 0, 0, n)
While(line, when) == Stmt("while", line, when, 0, 0, 0)
End(line, when) == Stmt("end", line, when, 0, 0, 0)

\* basics/2_create_actors.ipynb
CreateActorsNotebook ==
    << Call("import google.colab", 78, "always"),
       Call("Engine", 102, "always"),
       Call("SapienRenderer", 103, "always"),
       Call("create_scene", 106, "always"),
       Call("add_ground", 109, "always"),
       Call("build", 203, "always"),
       Call("build", 279, "always"),
       Call("build", 287, "always"),
       Call("build", 364, "always"),
       Call("build", 416, "always"),
       Call("set_ambient_light", 446, "always"),
       Call("add_directional_light", 447, "always"),
       Call("add_camera", 449, "always"),
       Call("step", 452, "always"),
       Call("update_render", 453, "always"),
       Call("take_picture", 454, "always"),
       Call("Image.fromarray", 458, "always"),
       Call("remove_actor", 487, "always"),
       Call("step", 489, "always"),
       Call("update_render", 490, "always"),
       Call("take_picture", 491, "always"),
       Call("Image.fromarray", 495, "always") >>

\* basics/3_physics.ipynb
PhysicsNotebook ==
    << Call("import google.colab", 83, "always"),
       Call("Engine", 145, "always"),
       Call("SapienRenderer", 146, "always"),
       Call("create_scene", 155, "always"),
       Call("add_ground", 325, "always"),
       Call("build_kinematic", 335, "always"),
       Call("build", 355, "always"),
       Call("set_ambient_light", 443, "always"),
       Call("add_directional_light", 444, "always"),
       Call("add_camera", 446, "always"),
       For(457, "colab", 100),
       Call("step", 458, "colab"),
       CallEvery("update_render", 462, "colab", 10, 0),
       CallEvery("take_picture", 463, "colab", 10, 0),
       CallEvery("plt.imshow", 466, "colab", 10, 0),
       End(472, "colab"),
       Call("Viewer", 475, "local"),
       While(482, "local"),
       Call("step", 483, "local"),
       Call("update_render", 484, "local"),
       Call("viewer.render", 485, "local"),
       CallEvery("update_render", 489, "local", 10, 100),
       CallEvery("take_picture", 490, "local", 10, 100),
       CallEvery("plt.imshow", 493, "local", 10, 100),
       End(501, "local"),
       Call("plt.show", 503, "always") >>

\* basics/4_create_articulations.ipynb: the car and its viewer loop, then the
\* cells that build a second engine and scene and step it
ArticulationsNotebook ==
    << Call("import google.colab", 81, "always"),
       Call("Engine", 101, "always"),
       Call("SapienRenderer", 102, "always"),
       Call("create_scene", 108, "always"),
       Call("add_ground", 363, "always"),
       Call("build", 364, "always"),
       Call("Viewer", 505, "local"),
       Call("set_ambient_light", 513, "local"),
       Call("add_directional_light", 514, "local"),
       While(520, "local"),
       Call("step", 551, "local"),
       Call("update_render", 552, "local"),
       Call("viewer.render", 553, "local"),
       End(560, "local"),
       Call("Engine", 723, "always"),
       Call("SapienRenderer", 724, "always"),
       Call("create_scene", 734, "always"),
       Call("add_ground", 904, "always"),
       Call("build_kinematic", 914, "always"),
       Call("build", 934, "always"),
       Call("set_ambient_light", 1021, "always"),
       Call("add_directional_light", 1022, "always"),
       Call("add_camera", 1024, "always"),
       For(1030, "always", 100),
       Call("step", 1031, "always"),
       CallEvery("update_render", 1035, "always", 10, 0),
       CallEvery("take_picture", 1036, "always", 10, 0),
       CallEvery("plt.imshow", 1039, "always", 10, 0),
       End(1045, "always"),
       Call("plt.show", 1046, "always") >>

\* a contact notebook that renders what it stepped
ContactNotebookWithRender ==
    << Call("Engine", 91, "always"),
       Call("create_scene", 92, "always"),
       Call("build_kinematic", 102, "always"),
       Call("build", 109, "always"),
       Call("step", 116, "always"),
       Call("get_contacts", 117, "always"),
       Call("assert_allclose", 133, "always"),
       Call("update_render", 134, "always") >>

\* basics/5_contact.ipynb
ContactNotebook ==
    << Call("Engine", 91, "always"),
       Call("create_scene", 92, "always"),
       Call("build_kinematic", 102, "always"),
       Call("build", 109, "always"),
       Call("step", 116, "always"),
       Call("get_contacts", 117, "always"),
       Call("assert_allclose", 133, "always") >>

\* rendering/1_camera.ipynb
CameraNotebook ==
    << Call("import google.colab", 92, "always"),
       Call("Engine", 120, "always"),
       Call("SapienRenderer", 121, "always"),
       Call("create_scene", 124, "always"),
       Call("load_kinematic", 138, "always"),
       Call("set_ambient_light", 141, "always"),
       Call("add_directional_light", 142, "always"),
       Call("add_point_light", 143, "always"),
       Call("add_point_light", 144, "always"),
       Call("add_point_light", 145, "always"),
       Call("add_camera", 166, "always"),
       Call("build_kinematic", 193, "always"),
       Call("step", 262, "always"),
       Call("update_render", 263, "always"),
       Call("take_picture", 264, "always"),
       Call("Image.fromarray", 285, "always"),
       Call("Image.fromarray", 374, "always"),
       Call("display", 418, "always"),
       Call("display", 421, "always") >>

\* robotics/1_getting_started_with_robot.ipynb
RobotNotebook ==
    << Call("import google.colab", 90, "always"),
       Call("import google.colab", 191, "always"),
       Call("Engine", 221, "always"),
       Call("SapienRenderer", 223, "always"),
       Call("create_scene", 227, "always"),
       Call("add_ground", 230, "always"),
       Call("set_ambient_light", 232, "always"),
       Call("add_directional_light", 233, "always"),
       Call("add_camera", 234, "always"),
       Call("load", 245, "always"),
       For(427, "colab", LoopRange),
       Call("step", 436, "colab"),
       CallEvery("update_render", 439, "colab", PictureEvery, 0),
       CallEvery("take_picture", 440, "colab", PictureEvery, 0),
       CallEvery("plt.imshow", 443, "colab", PictureEvery, 0),
       End(443, "colab"),
       Call("Viewer", 448, "local"),
       While(454, "local"),
       Call("step", 463, "local"),
       CallEvery("update_render", 466, "local", RenderEvery, 0),
       CallEvery("viewer.render", 467, "local", RenderEvery, 0),
       CallEvery("update_render", 470, "local", PictureEvery, LoopRange),
       CallEvery("take_picture", 471, "local", PictureEvery, LoopRange),
       CallEvery("plt.imshow", 474, "local", PictureEvery, LoopRange),
       End(479, "local") >>

\* Motion Planning Tutorial 1 (unnamed/part_001)
MotionPlanning1Notebook ==
    << Call("import google.colab", 88, "always"),
       Call("raise RuntimeError", 94, "always"),
       Call("Engine", 112, "always"),
       Call("SapienRenderer", 114, "always"),
       Call("create_scene", 119, "always"),
       Call("add_ground", 121, "always"),
       Call("build_kinematic", 128, "always"),
       Call("build", 134, "always"),
       Call("build", 140, "always"),
       Call("build", 146, "always"),
       Call("set_ambient_light", 150, "always"),
       Call("add_directional_light", 151, "always"),
       Call("add_point_light", 152, "always"),
       Call("add_point_light", 153, "always"),
       Call("add_point_light", 154, "always"),
       Call("load", 158, "always"),
       Call("Planner", 190, "always"),
       Call("Viewer", 510, "always"),
       Call("demo", 515, "always"),
       Call("viewer.close", 517, "always") >>

\* Motion Planning Tutorial 2 (unnamed/part_000)
MotionPlanning2Notebook ==
    << Call("import google.colab", 68, "always"),
       Call("raise RuntimeError", 74, "always"),
       Call("Engine", 92, "always"),
       Call("SapienRenderer", 94, "always"),
       Call("create_scene", 99, "always"),
       Call("add_ground", 101, "always"),
       Call("build_kinematic", 108, "always"),
       Call("build", 115, "always"),
       Call("build", 121, "always"),
       Call("build", 127, "always"),
       Call("set_ambient_light", 131, "always"),
       Call("add_directional_light", 132, "always"),
       Call("add_point_light", 133, "always"),
       Call("add_point_light", 134, "always"),
       Call("add_point_light", 135, "always"),
       Call("load", 139, "always"),
       Call("Planner", 149, "always"),
       Call("Viewer", 375, "always"),
       Call("demo", 380, "always"),
       Call("viewer.close", 382, "always") >>

MotionPlanningNotebooks == {"motion_planning_1", "motion_planning_2"}
Notebooks ==
    {"2_create_actors", "3_physics", "4_create_articulations", "5_contact",
     "1_camera", "1_getting_started_with_robot"} \cup MotionPlanningNotebooks

\* the statements of the notebook that is run
Program ==
    CASE notebook = "2_create_actors" -> CreateActorsNotebook
      [] notebook = "3_physics" -> PhysicsNotebook
      [] notebook = "4_create_articulations" -> ArticulationsNotebook
      [] notebook = "5_contact" -> ContactNotebook
      [] notebook = "1_camera" -> CameraNotebook
      [] notebook = "1_getting_started_with_robot" -> RobotNotebook
      [] notebook = "motion_planning_1" -> MotionPlanning1Notebook
      [] notebook = "motion_planning_2" -> MotionPlanning2Notebook
      [] OTHER -> <<>>

\* the kinds of calls
EngineOps == {"Engine", "SapienRenderer"}
ActorOps == {"add_ground", "build", "build_kinematic", "load", "load_kinematic"}
ConstructOps == {"create_scene"} \cup ActorOps
RemoveOps == {"remove_actor"}
RenderOps == {"update_render", "take_picture", "viewer.render"}
VisualiseOps == {"plt.imshow", "plt.show", "Image.fromarray", "display"}
ControlOps == {"import google.colab", "raise RuntimeError", "for", "while", "end",
               "step", "demo"}

\* what exists after a call
Effect(op) ==
    CASE op = "Engine" -> [created EXCEPT !.engine = @ + 1]
      [] op = "SapienRenderer" -> [created EXCEPT !.renderer = @ + 1]
      [] op = "create_scene" -> [created EXCEPT !.scene = @ + 1]
      [] op \in ActorOps -> [created EXCEPT !.actor = @ + 1]
      [] op = "remove_actor" -> [created EXCEPT !.actor = @ - 1]
      [] op = "Planner" -> [created EXCEPT !.planner = @ + 1]
      [] op = "Viewer" -> [created EXCEPT !.viewer = @ + 1]
      [] op = "viewer.close" -> [created EXCEPT !.viewer = @ - 1]
      [] OTHER -> created

\* the notebook is at a statement and no exception has stopped it
Running ==
    /\ notebook \in Notebooks
    /\ error = "none"
    /\ ip \in 1 .. Len(Program)
    /\ pc = "idle"
Cur == Program[ip]
Finished == notebook \in Notebooks /\ ip > Len(Program)

\* the statement's "if IN_COLAB" branch is taken and its "steps % k == 0" holds
WhenHolds(st) ==
    \/ st.when = "always"
    \/ st.when = "colab" /\ IN_COLAB
    \/ st.when = "local" /\ ~IN_COLAB
EveryHolds(st) ==
    IF st.every = 0 THEN TRUE
    ELSE it % st.every = 0 /\ (st.below = 0 \/ it < st.below)
Taken(st) == WhenHolds(st) /\ EveryHolds(st)

\* the head of the loop that ends at statement q, the end of the loop that begins at h
HeadOf(q) ==
    CHOOSE h \in 1 .. q :
       /\ Program[h].op \in {"for", "while"}
       /\ \A m \in (h + 1) .. q : Program[m].op \notin {"for", "while"}
EndOf(h) ==
    CHOOSE q \in h .. Len(Program) :
       /\ Program[q].op = "end"
       /\ \A m \in h .. (q - 1) : Program[m].op # "end"

\* a notebook is opened in a fresh kernel, inside or outside Colab
InitNotebook ==
    /\ PidInit /\ LoopIdle /\ EngineInit /\ DemoIdle
    /\ notebook \in Notebooks
    /\ colab \in BOOLEAN
    /\ ip = 1
    /\ it = 0
    /\ error = "none"
    /\ created = NoneCreated
    /\ lastOp = "none"
    /\ afterStep = {}
    /\ stepped = FALSE


\* try: import google.colab; IN_COLAB = True / except: IN_COLAB = False
NbImportColab ==
    /\ Running
    /\ Cur.op = "import google.colab"
    /\ IN_COLAB' = colab
    /\ ip' = ip + 1
    /\ UNCHANGED <<use_external_pid, steps, lpc, pid_qf, fwdTotal, renders>>
    /\ UNCHANGED <<notebook, colab, it, error, created, lastOp, afterStep, stepped>>
    /\ UNCHANGED <<pidVars, engineVars, demoVars>>

\* a guard that raises nothing
NbGuardSilent ==
    /\ Running
    /\ Cur.op = "raise RuntimeError"
    /\ ip' = ip + 1
    /\ UNCHANGED <<notebook, colab, it, error, created, lastOp, afterStep, stepped>>
    /\ UNCHANGED <<pidVars, loopVars, engineVars, demoVars>>

\* if IN_COLAB: raise RuntimeError(...): the exception stops the run of the notebook
NbGuard ==
    /\ Running
    /\ Cur.op = "raise RuntimeError"
    /\ IF IN_COLAB
       THEN /\ error' = "RuntimeError"
            /\ ip' = ip
       ELSE /\ error' = error
            /\ ip' = ip + 1
    /\ UNCHANGED <<notebook, colab, it, created, lastOp, afterStep, stepped>>
    /\ UNCHANGED <<pidVars, loopVars, engineVars, demoVars>>

\* a statement in the branch of "if IN_COLAB" that is not taken, or under an
\* "if steps % k == 0" that does not hold
NbSkip ==
    /\ Running
    /\ ~Taken(Cur)
    /\ ip' = ip + 1
    /\ UNCHANGED <<notebook, colab, it, error, created, lastOp, afterStep, stepped>>
    /\ UNCHANGED <<pidVars, loopVars, engineVars, demoVars>>

\* an engine, scene, camera, viewer or display call other than scene.step()
NbCall ==
    /\ Running
    /\ Taken(Cur)
    /\ Cur.op \notin ControlOps
    /\ created' = Effect(Cur.op)
    /\ lastOp' = Cur.op
    /\ afterStep' = (IF stepped THEN afterStep \cup {Cur.op} ELSE afterStep)
    /\ ip' = ip + 1
    /\ UNCHANGED <<notebook, colab, it, error, stepped>>
    /\ UNCHANGED <<pidVars, loopVars, engineVars, demoVars>>

\* scene.step()
NbStep ==
    /\ Running
    /\ Taken(Cur)
    /\ Cur.op = "step"
    /\ SceneStep
    /\ lastOp' = "step"
    /\ ip' = ip + 1
    /\ UNCHANGED <<notebook, colab, it, error, created, afterStep, qf>>
    /\ UNCHANGED <<pidVars, loopVars, demoVars>>

\* for steps in range(n): the body is entered, or the loop is left
NbFor ==
    /\ Running
    /\ Taken(Cur)
    /\ Cur.op = "for"
    /\ IF it < Cur.n
       THEN /\ ip' = ip + 1
            /\ it' = it
       ELSE /\ ip' = EndOf(ip) + 1
            /\ it' = 0
    /\ UNCHANGED <<notebook, colab, error, created, lastOp, afterStep, stepped>>
    /\ UNCHANGED <<pidVars, loopVars, engineVars, demoVars>>

\* while not viewer.closed: the user closes the window at any time
NbWhile ==
    /\ Running
    /\ Taken(Cur)
    /\ Cur.op = "while"
    /\ \E closed \in BOOLEAN :
          IF closed \/ it >= MaxViewerSteps
          THEN /\ ip' = EndOf(ip) + 1
               /\ it' = 0
          ELSE /\ ip' = ip + 1
               /\ it' = it
    /\ UNCHANGED <<notebook, colab, error, created, lastOp, afterStep, stepped>>
    /\ UNCHANGED <<pidVars, loopVars, engineVars, demoVars>>

\* the end of a loop body: steps += 1, back to the loop head
NbEnd ==
    /\ Running
    /\ Taken(Cur)
    /\ Cur.op = "end"
    /\ it' = it + 1
    /\ ip' = HeadOf(ip)
    /\ UNCHANGED <<notebook, colab, error, created, lastOp, afterStep, stepped>>
    /\ UNCHANGED <<pidVars, loopVars, engineVars, demoVars>>

\* demo(with_screw=True, viewer=viewer) /
\* demo(planner, use_point_cloud=True, use_attach=True, viewer=viewer): entry
NbDemo ==
    /\ Running
    /\ Cur.op = "demo"
    /\ tutorial' = (IF notebook = "motion_planning_1" THEN 1 ELSE 2)
    /\ with_screw' = (notebook = "motion_planning_1")
    /\ use_point_cloud' = (notebook = "motion_planning_2")
    /\ use_attach' = (notebook = "motion_planning_2")
    /\ poses' = (IF notebook = "motion_planning_1" THEN Tutorial1Poses
                 ELSE Tutorial2Poses)
    /\ di' = 0
    /\ stmt' = 1
    /\ pc' = "stmt"
    /\ result' = NoResult
    /\ mv' = NoMove
    /\ fi' = 0
    /\ callSteps' = 0
    /\ callRenders' = 0
    /\ drive_target' = [j \in ActiveJoints |-> 0]
    /\ drive_velocity' = [j \in ActiveJoints |-> 0]
    /\ planner' = [point_cloud |-> 0, attached_box |-> 0]
    /\ failed' = FALSE
    /\ calledAfterFailure' = FALSE
    /\ iterTrace' = <<>>
    /\ UNCHANGED <<nbVars, stepped>>
    /\ UNCHANGED <<pidVars, loopVars, engineVars>>

\* demo returns: the notebook goes on with the statement after the call
NbDemoReturn ==
    /\ notebook \in Notebooks
    /\ error = "none"
    /\ ip \in 1 .. Len(Program)
    /\ Cur.op = "demo"
    /\ pc = "done"
    /\ pc' = "idle"
    /\ ip' = ip + 1
    /\ lastOp' = "demo"
    /\ UNCHANGED <<tutorial, with_screw, use_point_cloud, use_attach, poses, di, stmt,
                   result, mv, fi, callSteps, callRenders, drive_target,
                   drive_velocity, planner, failed, calledAfterFailure, iterTrace>>
    /\ UNCHANGED <<notebook, colab, it, error, created, afterStep, stepped>>
    /\ UNCHANGED <<pidVars, loopVars, engineVars>>

NextNotebook ==
    \/ NbImportColab
    \/ NbGuard
    \/ NbSkip
    \/ NbCall
    \/ NbStep
    \/ NbFor
    \/ NbWhile
    \/ NbEnd
    \/ NbDemo
    \/ NbDemoReturn
    \/ Next

SpecNotebook == InitNotebook /\ [][NextNotebook]_vars

----------------------------------------------------------------------------
(* Claims about SimplePID *)

RECURSIVE Integral(_)
Integral(h) ==
    IF h = <<>> THEN RInt(0)
    ELSE RAdd(Integral(SubSeq(h, 1, Len(h) - 1)), RMul(h[Len(h)][1], h[Len(h)][2]))

PrevError(h) == IF Len(h) >= 2 THEN h[Len(h) - 1][1] ELSE RInt(0)

\* C1: compute returns kp*e + ki*I + kd*D, with I the sum of e_k*dt_k over
\* every compute call made on that controller so far (this one included) and
\* D = (e - e_prev)/dt, e_prev the error of the previous call (0 before the first).
C1_PidFormula ==
    \A j \in Joints :
        lastCall[j].made =>
            LET h  == hist[j]
                e  == h[Len(h)][1]
                dt == h[Len(h)][2]
            IN  lastCall[j].signal =
                    RAdd(RAdd(RMul(pids[j].p, e),
                              RMul(pids[j].i, Integral(h))),
                         RMul(pids[j].d, RDiv(RSub(e, PrevError(h)), dt)))

\* a controller has been called at least twice with a changing error and a changing dt
C1_Witness ==
    \E j \in Joints :
        /\ Len(hist[j]) >= 2
        /\ hist[j][Len(hist[j])][1] # hist[j][Len(hist[j]) - 1][1]
        /\ hist[j][Len(hist[j])][2] # hist[j][Len(hist[j]) - 1][2]
        /\ lastCall[j].signal # RInt(0)

EqualGains(a, b) ==
    /\ pids[a].p = pids[b].p
    /\ pids[a].i = pids[b].i
    /\ pids[a].d = pids[b].d

SameArgs(a, b) ==
    /\ lastCall[a].made /\ lastCall[b].made
    /\ lastCall[a].e = lastCall[b].e
    /\ lastCall[a].dt = lastCall[b].dt

\* C2 as stated: the signal is determined by (current_error, dt) and the gains
\* alone: two controllers with equal gains that receive the same
\* (current_error, dt) return the same signal whatever they were called with before.
C2_Stateless ==
    \A a, b \in Joints :
        (EqualGains(a, b) /\ SameArgs(a, b)) =>
            lastCall[a].signal = lastCall[b].signal

\* C2 amended: the signal is determined by (current_error, dt), the gains and
\* the controller's stored integral _ci and _last_error: two controllers with
\* equal gains whose _ci and _last_error agree before the call return the same
\* signal for the same (current_error, dt), whatever their call histories.
C2_DeterminedByStoredState ==
    \A a, b \in Joints :
        (/\ EqualGains(a, b) /\ SameArgs(a, b)
         /\ lastCall[a].pre_ci = lastCall[b].pre_ci
         /\ lastCall[a].pre_last_error = lastCall[b].pre_last_error) =>
            lastCall[a].signal = lastCall[b].signal

\* two controllers with different call histories but the same stored
\* integral and last error have received the same arguments
C2_Witness ==
    \E a, b \in Joints :
        /\ a # b /\ EqualGains(a, b) /\ SameArgs(a, b)
        /\ Len(hist[a]) # Len(hist[b])
        /\ lastCall[a].pre_ci = lastCall[b].pre_ci
        /\ lastCall[a].pre_last_error = lastCall[b].pre_last_error
        /\ lastCall[a].pre_ci # RInt(0)

----------------------------------------------------------------------------
(* Claims about the visualization loop *)

\* C9: with use_external_pid False, pid_forward is never called, no SimplePID
\* state changes and the force given to set_qf is exactly the passive force;
\* with it True, pid_forward is called exactly once per simulation step, before
\* set_qf, and the force set is the passive force plus the PID output.
C9_PidFlag ==
    LET afterPid == lpc \in {"set_qf", "step"}
        applied  == lpc = "step"
    IN  /\ ~use_external_pid =>
              /\ fwdTotal = 0
              /\ pids = BuildPids
              /\ applied => robot_qf = compute_passive_force(TRUE, TRUE)
        /\ use_external_pid =>
              /\ fwdTotal = steps + (IF afterPid THEN 1 ELSE 0)
              /\ applied => robot_qf = AddForce(compute_passive_force(TRUE, TRUE), pid_qf)

\* the flag is on, a second iteration has applied a force with a non-zero PID part
C9_WitnessOn ==
    /\ use_external_pid /\ lpc = "step" /\ steps >= 1
    /\ pid_qf # ZeroVec /\ robot_qf.add = pid_qf

----------------------------------------------------------------------------
(* Claims about the motion-planning demos *)

Calls == mv.calls
NumCalls == Len(mv.calls)
Failed(c) == c.status # "Success"

\* the statement that follows the one at position at = <<i, statement>>
NextPos(at) == IF at[2] < Len(Body) THEN <<at[1], at[2] + 1>> ELSE <<at[1] + 1, 1>>
IsLastPos(at) == at[2] = Len(Body) /\ (tutorial = 2 \/ at[1] + 1 = Len(poses))

\* demo has gone on to the statement after the recorded move_to_pose call
DemoWentOn ==
    \/ pc = "stmt" /\ <<di, stmt>> = NextPos(mv.at)
    \/ pc = "done" /\ IsLastPos(mv.at)

\* C3 as stated: whenever a planning attempt ends with a status other than
\* "Success", that status is printed and demo is aborted: no later
\* move_to_pose, open_gripper or close_gripper call of the run is executed.
C3_FailureAbortsDemo ==
    /\ mv.returned =>
          \A a \in 1 .. NumCalls :
              Failed(Calls[a]) =>
                  \E q \in 1 .. Len(mv.printed) : mv.printed[q] = Calls[a].status
    /\ ~calledAfterFailure

\* C3 amended: whenever the last planning attempt of a move_to_pose call
\* (planner.plan) fails, its status is printed and that move_to_pose call
\* returns -1 without follow_path and without a simulation step; a failed
\* plan_screw attempt is not printed and is followed by a planner.plan
\* attempt; demo is not aborted: it goes on with its next statement.
C3_FailureAbortsMoveOnly ==
    /\ (mv.returned /\ Failed(Calls[NumCalls])) =>
          /\ Calls[NumCalls].planner = "plan"
          /\ mv.printed = <<Calls[NumCalls].status>>
          /\ mv.ret = -1
          /\ mv.follows = 0
          /\ mv.steps = 0
          /\ DemoWentOn
    /\ (mv.active /\ ~mv.returned /\ NumCalls >= 1 /\ Failed(Calls[NumCalls])) =>
          /\ Calls[NumCalls].planner = "plan_screw"
          /\ mv.printed = <<>>
          /\ pc = "plan"

\* a move_to_pose call has returned -1 in a run in which an earlier failure
\* was already followed by further calls, and demo is at its next statement
C3_Witness ==
    /\ mv.returned /\ mv.ret = -1 /\ mv.printed # <<>>
    /\ calledAfterFailure
    /\ pc = "stmt"

\* C4 as stated: once a planner call for a target pose has returned a
\* non-Success status, no second planning call is issued for that same target
\* pose from the same joint configuration (no simulation step in between).
C4_NoSecondPlanningCall ==
    \A a, b \in 1 .. NumCalls :
        (a < b /\ Failed(Calls[a])) =>
            ~(Calls[b].pose = Calls[a].pose /\ Calls[b].at = Calls[a].at)

\* C4 amended: there is no retry loop but one fallback: in one move_to_pose
\* call no planner is called twice; a planning call that follows a failed one
\* for the same pose and joint configuration is planner.plan after a failed
\* planner.plan_screw; after a failed planner.plan the call returns.
C4_OnlyScrewFallback ==
    /\ NumCalls <= 2
    /\ \A a, b \in 1 .. NumCalls :
          (a < b /\ Failed(Calls[a])) =>
              /\ Calls[a].planner = "plan_screw"
              /\ Calls[b].planner = "plan"
              /\ Calls[b].pose = Calls[a].pose
              /\ Calls[b].at = Calls[a].at
    /\ \A a \in 1 .. NumCalls :
          (Calls[a].planner = "plan" /\ Failed(Calls[a])) =>
              (a = NumCalls /\ mv.returned)

\* plan_screw and then plan have both failed for the same pose and configuration
C4_Witness ==
    /\ NumCalls = 2
    /\ Failed(Calls[1]) /\ Failed(Calls[2])
    /\ Calls[1].pose = Calls[2].pose /\ Calls[1].at = Calls[2].at
    /\ mv.returned

\* C5: move_to_pose_with_screw (Tutorial 1) and move_to_pose (Tutorial 2) call
\* plan_screw first; plan is called iff plan_screw did not succeed; follow_path
\* runs exactly once, on the first successful result, and 0 is returned; only
\* when both fail is a status printed (that of plan), follow_path is not run
\* and -1 is returned.
C5_ScrewThenPlan ==
    (mv.active /\ ScrewFirst) =>
        /\ NumCalls >= 1 => Calls[1].planner = "plan_screw"
        /\ NumCalls >= 2 =>
              /\ NumCalls = 2
              /\ Calls[2].planner = "plan"
              /\ Failed(Calls[1])
        /\ (NumCalls = 1 /\ Failed(Calls[1])) => pc = "plan"
        /\ mv.follows <= 1
        /\ mv.follows = 1 =>
              /\ mv.followed = NumCalls
              /\ ~Failed(Calls[mv.followed])
              /\ \A a \in 1 .. (mv.followed - 1) : Failed(Calls[a])
        /\ (mv.follows = 1 /\ ~mv.returned) =>
              result = [status |-> "Success", n |-> Calls[mv.followed].n,
                        id |-> Calls[mv.followed].id]
        /\ mv.returned =>
              IF Failed(Calls[NumCalls])
              THEN /\ NumCalls = 2
                   /\ mv.printed = <<Calls[2].status>>
                   /\ mv.follows = 0
                   /\ mv.ret = -1
              ELSE /\ mv.printed = <<>>
                   /\ mv.follows = 1
                   /\ mv.steps = Calls[NumCalls].n
                   /\ mv.ret = 0

\* plan_screw failed, plan succeeded, its path was followed and 0 returned
C5_Witness ==
    /\ ScrewFirst /\ mv.returned /\ mv.ret = 0
    /\ NumCalls = 2 /\ Failed(Calls[1]) /\ mv.followed = 2

\* C6: the time_step passed to every planner.plan and planner.plan_screw call
\* equals the simulation timestep configured with scene.set_timestep.
C6_TimeStepAligned ==
    \A a \in 1 .. NumCalls : Calls[a].time_step = SceneTimestep

\* C7: for a result with n waypoints follow_path runs exactly n iterations in
\* waypoint order; in iteration i the drive target and drive velocity target of
\* each of the first seven joints are position[i][j] and velocity[i][j] when
\* scene.step() is called, and scene.step() is called exactly once per iteration.
C7_FollowPath ==
    /\ pc \in {"fp_qf", "fp_drive", "fp_step"} =>
          /\ mv.follows = 1
          /\ fi < Calls[mv.followed].n
          /\ callSteps = fi
    /\ pc = "fp_step" =>
          \A j \in ArmJoints :
              /\ drive_target[j] = WaypointPosition(Calls[mv.followed], fi, j)
              /\ drive_velocity[j] = WaypointVelocity(Calls[mv.followed], fi, j)
    /\ (mv.returned /\ mv.ret = 0) =>
          /\ fi = Calls[mv.followed].n
          /\ callSteps = Calls[mv.followed].n
          /\ \A j \in ArmJoints :
                /\ drive_target[j] = WaypointPosition(Calls[mv.followed], fi - 1, j)
                /\ drive_velocity[j] = WaypointVelocity(Calls[mv.followed], fi - 1, j)

\* the second waypoint of a path has been set and its step is about to run
C7_Witness ==
    /\ pc = "fp_step" /\ fi = 1 /\ callSteps = 1
    /\ drive_target[0] = WaypointPosition(result, 1, 0)

\* C8: in follow_path, open_gripper and close_gripper every scene.step() runs
\* with the force set by robot.set_qf to a passive force computed, with gravity
\* and coriolis_and_centrifugal, since the previous step: no simulation step of
\* these functions runs without passive-force compensation.
C8_StepsCompensated ==
    [][tick' # tick =>
          /\ robot_qf = compute_passive_force(TRUE, TRUE)
          /\ pc \in {"fp_step", "grip_step"}]_vars

\* a later iteration of a gripper loop has set a fresh passive force and is about to step
C8_Witness ==
    /\ pc = "grip_step" /\ fi >= 1 /\ callSteps = fi
    /\ robot_qf = compute_passive_force(TRUE, TRUE)

Shift(P, dx, dz) == [P EXCEPT ![1] = @ + dx, ![3] = @ + dz]

\* the nine calls the claim lists for a landmark pose P (positions in hundredths)
C10_Expected(P) ==
    << [op |-> "move_to_pose",  pose |-> Shift(P, 0, 20)],
       [op |-> "open_gripper",  pose |-> Shift(P, 0, 20)],
       [op |-> "move_to_pose",  pose |-> Shift(P, 0, 8)],
       [op |-> "close_gripper", pose |-> Shift(P, 0, 8)],
       [op |-> "move_to_pose",  pose |-> Shift(P, 0, 20)],
       [op |-> "move_to_pose",  pose |-> Shift(P, 10, 20)],
       [op |-> "move_to_pose",  pose |-> Shift(P, 10, 8)],
       [op |-> "open_gripper",  pose |-> Shift(P, 10, 8)],
       [op |-> "move_to_pose",  pose |-> Shift(P, 10, 20)] >>

IsPrefix(s, t) == Len(s) <= Len(t) /\ SubSeq(t, 1, Len(s)) = s

\* C10: for each of the three landmark poses, in list order, Tutorial 1's demo
\* makes exactly the calls: move to the pose raised by 0.2; open; move down
\* 0.12; close; move up 0.12; move +0.1 in x; move down 0.12; open; move up
\* 0.12.  Hence the target pose at the release is the target pose at the grasp
\* moved by 0.1 along x: same height, same orientation, same y.
C10_DemoSequence ==
    tutorial = 1 =>
        LET between == pc = "stmt" /\ stmt = 1 /\ di > 0
            landmark == IF between \/ pc = "done"
                        THEN Tutorial1Poses[IF pc = "done" THEN di + 1 ELSE di]
                        ELSE Tutorial1Poses[di + 1]
            started == IF between \/ pc = "done" THEN Len(Body)
                       ELSE IF pc = "stmt" THEN stmt - 1 ELSE stmt
        IN  /\ Len(iterTrace) = started
            /\ IsPrefix(iterTrace, C10_Expected(landmark))
            /\ pc = "done" => di + 1 = Len(Tutorial1Poses)
            /\ Len(iterTrace) >= 8 =>
                  /\ iterTrace[4].op = "close_gripper"
                  /\ iterTrace[8].op = "open_gripper"
                  /\ iterTrace[8].pose = Shift(iterTrace[4].pose, 10, 0)

\* demo has finished the third landmark pose
C10_Witness ==
    /\ tutorial = 1 /\ pc = "done" /\ di = 2
    /\ Len(iterTrace) = 9
    /\ iterTrace[8].pose[1] = iterTrace[4].pose[1] + 10

----------------------------------------------------------------------------
(* Claims about the point cloud and the attached box of Tutorial 2's demo *)

\* the entries of the trace that are calls of the given function
CallsOf(name) == {q \in 1 .. Len(iterTrace) : iterTrace[q].op = name}

\* statement 1 of demo's body, the guarded add_point_cloud(), has been executed
PointCloudStatementDone == stmt > 1 \/ pc = "done"

\* C11: in Tutorial 2's demo planner.update_point_cloud has been called once if
\* use_point_cloud is true and the guarded statement has run, and never otherwise;
\* every plan_screw and plan call is made after that statement, with the point
\* cloud already added when the flag is true, and carries the caller's
\* use_point_cloud value; a finished demo has made six move_to_pose calls.
C11_PointCloudOnceAndPassed ==
    tutorial = 2 =>
        /\ planner.point_cloud =
               (IF use_point_cloud /\ PointCloudStatementDone THEN 1 ELSE 0)
        /\ Cardinality(CallsOf("add_point_cloud")) = planner.point_cloud
        /\ \A q \in 1 .. Len(mv.calls) :
              /\ mv.calls[q].use_point_cloud = use_point_cloud
              /\ mv.calls[q].point_cloud = (IF use_point_cloud THEN 1 ELSE 0)
        /\ (mv.active => mv.use_point_cloud = use_point_cloud)
        /\ (\A q \in CallsOf("add_point_cloud") : q = 1)
        /\ (pc = "done" => Cardinality(CallsOf("move_to_pose")) = 6)

\* the demo of Tutorial 2 ran to its end with use_point_cloud true, and its last
\* move reached planner.plan after plan_screw failed
C11_Witness ==
    /\ tutorial = 2
    /\ use_point_cloud
    /\ pc = "done"
    /\ planner.point_cloud = 1
    /\ Len(mv.calls) = 2
    /\ mv.calls[2].planner = "plan"
    /\ mv.calls[2].use_point_cloud

\* the number of move_to_pose calls demo made before entry q of the trace
MovesBefore(q) == Cardinality({m \in CallsOf("move_to_pose") : m < q})

\* C12: in Tutorial 2's demo attach_box is called at most once and only if
\* use_attach is true, and a finished demo with use_attach true has called it;
\* the call comes right after close_gripper and before the third move (the lift);
\* exactly two moves precede close_gripper and their planning calls carry
\* use_attach=False; no planning call carries use_attach=True unless
\* update_attached_box has been called before it.
C12_AttachBoxOnceAfterGrasp ==
    tutorial = 2 =>
        /\ planner.attached_box \in {0, 1}
        /\ Cardinality(CallsOf("attach_box")) = planner.attached_box
        /\ (planner.attached_box = 1 => use_attach)
        /\ (pc = "done" /\ use_attach => planner.attached_box = 1)
        /\ \A q \in CallsOf("attach_box") :
              /\ q > 1
              /\ iterTrace[q - 1].op = "close_gripper"
              /\ MovesBefore(q) = 2
        /\ \A q \in CallsOf("close_gripper") : MovesBefore(q) = 2
        /\ (CallsOf("close_gripper") = {} =>
               /\ ~mv.use_attach
               /\ \A q \in 1 .. Len(mv.calls) : ~mv.calls[q].use_attach)
        /\ \A q \in 1 .. Len(mv.calls) :
              mv.calls[q].use_attach => mv.calls[q].attached_box = 1

\* the lift move of a demo with use_attach true: attach_box has been called, and
\* plan_screw and plan were both called with use_attach=True
C12_Witness ==
    /\ tutorial = 2
    /\ use_attach
    /\ Cardinality(CallsOf("move_to_pose")) = 3
    /\ Cardinality(CallsOf("attach_box")) = 1
    /\ Len(mv.calls) = 2
    /\ mv.calls[1].use_attach
    /\ mv.calls[2].use_attach
    /\ mv.calls[2].attached_box = 1

----------------------------------------------------------------------------
(* Claims about the notebooks as a whole *)

\* the positions of the import of google.colab and of the guard in the preparation cell
ImportAt == CHOOSE q \in 1 .. Len(Program) : Program[q].op = "import google.colab"
GuardAt == CHOOSE q \in 1 .. Len(Program) : Program[q].op = "raise RuntimeError"

\* C13: in both motion-planning notebooks, once the import has been tried,
\* IN_COLAB is True exactly when google.colab could be imported; if it is True
\* the guard raises RuntimeError and the run stops there, with no engine,
\* renderer, scene, actor, robot, planner or viewer created and no demo started;
\* if it is False no exception is raised and the run passes the guard.
C13_ColabGuard ==
    notebook \in MotionPlanningNotebooks =>
        /\ (ip > ImportAt => IN_COLAB = colab)
        /\ error \in {"none", "RuntimeError"}
        /\ (error = "RuntimeError" => IN_COLAB /\ ip = GuardAt)
        /\ (colab => /\ ip <= GuardAt
                     /\ created = NoneCreated
                     /\ pc = "idle"
                     /\ ~stepped)
        /\ (~colab => error = "none")
        /\ (created # NoneCreated => ~IN_COLAB /\ ip > GuardAt)

\* the preparation cell of a motion-planning notebook has raised in Colab
C13_Witness ==
    /\ notebook \in MotionPlanningNotebooks
    /\ colab
    /\ IN_COLAB
    /\ ip = GuardAt
    /\ error = "RuntimeError"

\* outside Colab the preparation cell completed and the later cells ran to the end
C13_WitnessLocal ==
    /\ notebook \in MotionPlanningNotebooks
    /\ ~colab
    /\ ~IN_COLAB
    /\ error = "none"
    /\ created.planner = 1
    /\ Finished

\* the creation order every notebook keeps: engine, then scene, then actors,
\* then the first scene.step(), and render calls only after a step
CreationOrder ==
    /\ (created.scene > 0 => created.engine > 0)
    /\ (created.actor > 0 => created.scene > 0)
    /\ (stepped => created.actor > 0)
    /\ (lastOp \in RenderOps => stepped)

C14_WitnessRemoval ==
    /\ notebook = "2_create_actors"
    /\ Finished
    /\ "remove_actor" \in afterStep

\* 5_contact ran to its end: it stepped the scene and never rendered
C14_WitnessNoRender ==
    /\ notebook = "5_contact"
    /\ Finished
    /\ stepped
    /\ lastOp = "assert_allclose"

====
